---- MODULE Spec2Model ----
(***************************************************************************)
(* PATH Inspector (src/paths.py): the snapshot builder analyze_path with   *)
(* its classifier and duplicate/shadow analyzer, the suggestion engine and *)
(* the interactive fix session.                                            *)
(*                                                                         *)
(* Text is modelled by TLA+ strings (Len, SubSeq and \o act on them as on  *)
(* Python strings); Python lists are TLA+ sequences.  The filesystem is a  *)
(* record of directories, regular files, symbolic links and unsearchable   *)
(* directories, all named by their real absolute paths.                    *)
(***************************************************************************)
EXTENDS Integers, Sequences, FiniteSets, TLC

VARIABLES
  environ,          \* os.environ PATH: [set |-> BOOLEAN, val |-> string]
  fs,               \* the filesystem
  strict,           \* TRUE when Path.stat errors other than ENOENT/ENOTDIR propagate
  pc,               \* control position of main / the fix session
  raw_path,         \* main: raw_path
  entries,          \* main: entries
  grouped,          \* main: grouped
  current_parts,    \* interactive_fix_broken_paths: current_parts
  current_raw,      \* interactive_fix_broken_paths: current_raw
  current_entries,  \* interactive_fix_broken_paths: current_entries
  cmd,              \* interactive_fix_broken_paths: cmd
  e,                \* _apply_fix_for_entry: the entry being fixed
  alts,             \* _apply_fix_for_entry: alts
  typed,            \* _apply_fix_for_entry: typed (replacement prompt)
  norm,             \* _apply_fix_for_entry: norm (replacement prompt)
  caller,           \* where _apply_fix_for_entry returns to: "guided" or "numeric"
  log,              \* the records the last step handed to the logger, in order
  out,              \* the lines the last step printed to the user, in order
  hist              \* history: facts recorded for the properties below

vars == <<environ, fs, strict, pc, raw_path, entries, grouped, current_parts,
          current_raw, current_entries, cmd, e, alts, typed, norm, caller, log, out, hist>>

-----------------------------------------------------------------------------
(* Bounds of the model *)

\* longest PATH (in segments) drawn for the snapshot builder
MaxSegs == 3
\* longest PATH (in segments) a fix session starts from
MaxParts == 3
\* the largest limit suggest_alternatives is called with, besides its default
MaxLimit == 3

-----------------------------------------------------------------------------
(* Python str operations *)

\* Optional[int] None; entry indices start at 1
None == 0

\* F of the value of E, which is computed once
Bind(E, F(_)) == CHOOSE y \in {F(x) : x \in {E}} : TRUE

\* s[i-1:j] (a slice stops at the end of the string)
Slice(s, i, j) == SubSeq(s, i, IF j > Len(s) THEN Len(s) ELSE j)

\* the i-th character, "" past the end
Char(s, i) == Slice(s, i, i)

StartsWith(s, p) == Len(p) <= Len(s) /\ SubSeq(s, 1, Len(p)) = p

\* needle in haystack
Contains(s, n) == \E i \in 1..(Len(s) - Len(n) + 1) : SubSeq(s, i, i + Len(n) - 1) = n

RECURSIVE SplitFrom(_, _, _, _)
SplitFrom(s, sep, i, cur) ==
  IF i > Len(s) THEN <<cur>>
  ELSE IF Char(s, i) = sep THEN <<cur>> \o SplitFrom(s, sep, i + 1, "")
  ELSE SplitFrom(s, sep, i + 1, cur \o Char(s, i))

\* s.split(sep) for a one-character separator: "" splits into [""]
Split(s, sep) == SplitFrom(s, sep, 1, "")

RECURSIVE Join(_, _)
\* sep.join(parts)
Join(parts, sep) ==
  IF parts = <<>> THEN ""
  ELSE IF Len(parts) = 1 THEN parts[1]
  ELSE parts[1] \o sep \o Join(Tail(parts), sep)

RECURSIVE RStrip(_, _)
\* s.rstrip(ch)
RStrip(s, ch) ==
  IF Len(s) > 0 /\ Char(s, Len(s)) = ch THEN RStrip(SubSeq(s, 1, Len(s) - 1), ch) ELSE s

UpperCase == <<"A","B","C","D","E","F","G","H","I","J","K","L","M",
               "N","O","P","Q","R","S","T","U","V","W","X","Y","Z">>
LowerCase == <<"a","b","c","d","e","f","g","h","i","j","k","l","m",
               "n","o","p","q","r","s","t","u","v","w","x","y","z">>
Digits == {"0","1","2","3","4","5","6","7","8","9"}

LowerChar(c) ==
  IF \E k \in 1..Len(UpperCase) : UpperCase[k] = c
  THEN LowerCase[CHOOSE k \in 1..Len(UpperCase) : UpperCase[k] = c]
  ELSE c

RECURSIVE Lower(_)
\* s.lower()
Lower(s) == IF s = "" THEN "" ELSE LowerChar(Char(s, 1)) \o Lower(Tail(s))

\* s.isdigit()
IsDigit(s) == Len(s) > 0 /\ \A i \in 1..Len(s) : Char(s, i) \in Digits

RECURSIVE ToInt(_)
\* int(s) for a string of digits
ToInt(s) ==
  IF s = "" THEN 0
  ELSE 10 * ToInt(SubSeq(s, 1, Len(s) - 1))
       + (CHOOSE d \in 0..9 : Char("0123456789", d + 1) = Char(s, Len(s)))

RECURSIVE ToStr(_)
\* str(n) for n >= 0
ToStr(n) == IF n < 10 THEN Char("0123456789", n + 1)
            ELSE ToStr(n \div 10) \o Char("0123456789", (n % 10) + 1)

-----------------------------------------------------------------------------
(* The platform *)

\* os.pathsep and os.sep on macOS/Linux
pathsep == ":"
sep == "/"

\* Path.home() and the working directory of the process
HOME == "/h"
Cwd == "/h"

\* the path texts the runs below meet most: the text functions PartsOf, Expand and
\* classify are tabulated on them once, and computed for any other text
KnownTexts == {"", ".", "/", "/a", "/a/", "/a/b", "/a/b1", "/a:", "/a:/a", "/ab", "/f",
               "/f/x", "/h", "/l", "~", "$HOME"}

-----------------------------------------------------------------------------
(* posixpath / pathlib text operations *)

\* the root of a POSIX path: "", "/" or "//" (exactly two leading slashes)
RootOf(s) ==
  IF ~StartsWith(s, "/") THEN ""
  ELSE IF StartsWith(s, "//") /\ ~StartsWith(s, "///") THEN "//"
  ELSE "/"

\* the components pathlib keeps: empty and "." components are dropped
PartsOfText(s) == SelectSeq(Split(s, "/"), LAMBDA c : c # "" /\ c # ".")
PartsTable == [s \in KnownTexts |-> PartsOfText(s)]
PartsOf(s) == IF s \in KnownTexts THEN PartsTable[s] ELSE PartsOfText(s)

FromParts(root, comps) ==
  IF root = "" /\ comps = <<>> THEN "." ELSE root \o Join(comps, "/")

\* str(Path(s))
PathStr(s) == FromParts(RootOf(s), PartsOf(s))

RECURSIVE CollapseDotDot(_, _, _)
CollapseDotDot(comps, acc, rooted) ==
  IF comps = <<>> THEN acc
  ELSE LET c == Head(comps) IN
    IF c # ".." THEN CollapseDotDot(Tail(comps), Append(acc, c), rooted)
    ELSE IF acc # <<>> /\ acc[Len(acc)] # ".."
      THEN CollapseDotDot(Tail(comps), SubSeq(acc, 1, Len(acc) - 1), rooted)
    ELSE IF acc = <<>> /\ rooted THEN CollapseDotDot(Tail(comps), acc, rooted)
    ELSE CollapseDotDot(Tail(comps), Append(acc, c), rooted)

\* os.path.normpath(s)
normpath(s) == FromParts(RootOf(s), CollapseDotDot(PartsOf(s), <<>>, RootOf(s) # ""))

\* Path(s).name
NameOf(s) == Bind(PartsOf(s), LAMBDA c : IF c = <<>> THEN "" ELSE c[Len(c)])

\* str(Path(s).parent)
ParentOf(s) ==
  Bind(PartsOf(s), LAMBDA c :
    IF c = <<>> THEN PathStr(s) ELSE FromParts(RootOf(s), SubSeq(c, 1, Len(c) - 1)))

WordChars == {UpperCase[k] : k \in 1..Len(UpperCase)}
             \cup {LowerCase[k] : k \in 1..Len(LowerCase)} \cup Digits \cup {"_"}

RECURSIVE WordEnd(_, _)
\* last index of the run of word characters of s that starts at i (i-1 if none)
WordEnd(s, i) == IF i <= Len(s) /\ Char(s, i) \in WordChars THEN WordEnd(s, i + 1) ELSE i - 1

\* the environment variables a segment can name
EnvVars == {"HOME"}
Getenv(name) == HOME

RECURSIVE ExpandVarsFrom(_, _)
ExpandVarsFrom(s, i) ==
  IF i > Len(s) THEN ""
  ELSE IF Char(s, i) # "$" THEN Char(s, i) \o ExpandVarsFrom(s, i + 1)
  ELSE Bind(WordEnd(s, i + 1), LAMBDA j :
         IF SubSeq(s, i + 1, j) \in EnvVars
         THEN Getenv(SubSeq(s, i + 1, j)) \o ExpandVarsFrom(s, j + 1)
         ELSE "$" \o SubSeq(s, i + 1, j) \o ExpandVarsFrom(s, j + 1))

\* os.path.expandvars(s), the $NAME form (no segment of the model writes ${NAME})
expandvars(s) == ExpandVarsFrom(s, 1)

\* str(Path(s).expanduser()): a leading "~" component becomes the home directory
\* (no segment of the model names another user as ~name)
expanduser(s) ==
  Bind(PartsOf(s), LAMBDA c :
    IF RootOf(s) = "" /\ c # <<>> /\ c[1] = "~"
    THEN PathStr(Join(<<HOME>> \o Tail(c), "/"))
    ELSE PathStr(s))

\* str(Path(os.path.expandvars(p)).expanduser())
ExpandText(p) == expanduser(expandvars(p))
ExpandTable == [p \in KnownTexts |-> ExpandText(p)]
Expand(p) == IF p \in KnownTexts THEN ExpandTable[p] ELSE ExpandText(p)

-----------------------------------------------------------------------------
(* The filesystem *)

\* fs.dirs, fs.files: the real absolute paths of directories and regular files;
\* fs.links: symbolic link path -> real path of its target;
\* fs.denied: directories whose entries cannot be looked up (EACCES)

ChildPath(cur, c) == IF cur = "/" THEN "/" \o c ELSE cur \o "/" \o c

RECURSIVE Walk(_, _, _)
\* path lookup by the kernel, one component at a time, following links
Walk(f, cur, comps) ==
  IF comps = <<>>
  THEN [kind |-> IF cur \in f.dirs THEN "dir" ELSE IF cur \in f.files THEN "file" ELSE "none",
        real |-> cur]
  ELSE IF cur \notin f.dirs THEN [kind |-> "none", real |-> cur]
  ELSE IF cur \in f.denied THEN [kind |-> "denied", real |-> cur]
  ELSE Bind(IF Head(comps) = ".." THEN ParentOf(cur) ELSE ChildPath(cur, Head(comps)),
            LAMBDA nxt :
              Walk(f, IF nxt \in DOMAIN f.links THEN f.links[nxt] ELSE nxt, Tail(comps)))

\* os.stat(p): kind is "dir", "file", "none" (ENOENT/ENOTDIR) or "denied" (EACCES)
Stat(f, p) == Walk(f, IF RootOf(p) = "" THEN Cwd ELSE "/", PartsOf(p))

\* Path(p).exists() / Path(p).is_dir() raise on an error pathlib does not ignore
StatRaises(f, p) == strict /\ Stat(f, p).kind = "denied"
Exists(f, p) == Stat(f, p).kind \in {"dir", "file"}
IsDir(f, p) == Stat(f, p).kind = "dir"

\* str(Path(p).resolve()) of an existing path
Resolve(f, p) == Stat(f, p).real

-----------------------------------------------------------------------------
(* Classification rules *)

SYSTEM_PREFIXES == <<"/System", "/bin", "/sbin", "/usr/bin", "/usr/sbin", "/usr/libexec">>
BREW_PREFIXES == <<"/opt/homebrew", "/usr/local">>
DEV_PREFIXES == <<"/Applications/Xcode.app", "/Library/Developer", "/Developer">>

\* the dict keeps insertion order: a sequence of (category, needles)
KEYWORD_BUCKETS == <<
  [cat |-> "Python", needles |-> <<"pyenv", "conda", "anaconda", "miniconda", "venv",
                                    "virtualenv", "pipx", "python">>],
  [cat |-> "Node.js", needles |-> <<"nvm", "node", "npm", "yarn", "pnpm">>],
  [cat |-> "Java", needles |-> <<"java", "jdk", "jre", "maven", "gradle">>],
  [cat |-> "Go", needles |-> <<"/go", "gobin", "golang">>],
  [cat |-> "Rust", needles |-> <<"cargo", ".cargo", "rustup">>],
  [cat |-> "Ruby", needles |-> <<"rbenv", "rvm", "ruby", "bundler">>],
  [cat |-> "Android", needles |-> <<"android", "sdk">>],
  [cat |-> "Dotfiles / User Local", needles |-> <<HOME, "~", ".local", ".dotfiles">>],
  [cat |-> "Cloud / DevOps", needles |-> <<"aws", "gcloud", "google-cloud-sdk", "azure",
                                           "az", "kubectl", "helm", "terraform">>],
  [cat |-> "Databricks", needles |-> <<"databricks">>],
  [cat |-> "Databases", needles |-> <<"postgres", "mysql", "mariadb", "mongo", "redis">>] >>

\* p.startswith(prefixes) for a tuple of prefixes
StartsWithAny(p, prefixes) == \E k \in 1..Len(prefixes) : StartsWith(p, prefixes[k])

\* n.lower() of every needle of the table
LowerNeedle ==
  [n \in UNION {{KEYWORD_BUCKETS[k].needles[m] : m \in 1..Len(KEYWORD_BUCKETS[k].needles)} :
                 k \in 1..Len(KEYWORD_BUCKETS)} |-> Lower(n)]

RECURSIVE FirstNeedle(_, _, _)
\* for n in needles: if n.lower() in haystack_lower: return n
FirstNeedle(haystack_lower, needles, k) ==
  IF k > Len(needles) THEN ""
  ELSE IF Contains(haystack_lower, LowerNeedle[needles[k]]) THEN needles[k]
  ELSE FirstNeedle(haystack_lower, needles, k + 1)

\* _contains_any(haystack_lower, needles): the first needle that occurs, "" for None
_contains_any(haystack_lower, needles) == FirstNeedle(haystack_lower, needles, 1)

RECURSIVE DigitsEnd(_, _)
\* last index of the run of digits of s that starts at i (i-1 if none)
DigitsEnd(s, i) == IF i <= Len(s) /\ Char(s, i) \in Digits THEN DigitsEnd(s, i + 1) ELSE i - 1

\* re.search(r"/versions/node/v\d+", s)
MatchesNodeVersion(s) ==
  \E i \in 1..Len(s) :
     /\ Slice(s, i, i + 15) = "/versions/node/v"
     /\ DigitsEnd(s, i + 16) >= i + 16

\* re.search(r"/python\d+(\.\d+)?/", s)
MatchesPythonVersion(s) ==
  \E i \in 1..Len(s) :
     /\ Slice(s, i, i + 6) = "/python"
     /\ LET j == DigitsEnd(s, i + 7) IN
        /\ j >= i + 7
        /\ \/ Char(s, j + 1) = "/"
           \/ /\ Char(s, j + 1) = "."
              /\ LET k == DigitsEnd(s, j + 2) IN k >= j + 2 /\ Char(s, k + 1) = "/"

RECURSIVE BucketsFrom(_, _)
\* for cat, needles in KEYWORD_BUCKETS.items(): the first bucket with a hit decides
BucketsFrom(pl, k) ==
  IF k > Len(KEYWORD_BUCKETS) THEN
    IF MatchesNodeVersion(pl) THEN <<"Node.js", "node versioned path">>
    ELSE IF MatchesPythonVersion(pl) THEN <<"Python", "python versioned path">>
    ELSE <<"Other / Unknown", "no match">>
  ELSE IF FirstNeedle(pl, KEYWORD_BUCKETS[k].needles, 1) # ""
    THEN <<KEYWORD_BUCKETS[k].cat,
           "matched '" \o _contains_any(pl, KEYWORD_BUCKETS[k].needles) \o "'">>
  ELSE BucketsFrom(pl, k + 1)

\* (mutant) the keyword buckets and fallbacks are tried before the prefix rules
ClassifyRulesKeywordsFirst(p, pl) ==
  IF BucketsFrom(pl, 1)[1] # "Other / Unknown" THEN BucketsFrom(pl, 1)
  ELSE IF StartsWithAny(p, SYSTEM_PREFIXES) THEN <<"System", "system prefix">>
  ELSE IF StartsWithAny(p, DEV_PREFIXES)
    THEN <<"Apple / Xcode / Developer", "developer tools prefix">>
  ELSE IF StartsWithAny(p, BREW_PREFIXES)
    THEN IF Contains(p, "/Cellar/") \/ Contains(pl, "/cellar/")
         THEN <<"Homebrew", "brew cellar">>
         ELSE <<"Homebrew", "brew prefix">>
  ELSE <<"Other / Unknown", "no match">>

\* the rules of classify on the path p and its lower-case form pl
ClassifyRules(p, pl) ==
  IF StartsWithAny(p, SYSTEM_PREFIXES) THEN <<"System", "system prefix">>
  ELSE IF StartsWithAny(p, DEV_PREFIXES)
    THEN <<"Apple / Xcode / Developer", "developer tools prefix">>
  ELSE IF StartsWithAny(p, BREW_PREFIXES)
    THEN IF Contains(p, "/Cellar/") \/ Contains(pl, "/cellar/")
         THEN <<"Homebrew", "brew cellar">>
         ELSE <<"Homebrew", "brew prefix">>
  ELSE BucketsFrom(pl, 1)

\* classify(path) -> (category, reason)
ClassifyText(path) == Bind(Lower(path), LAMBDA pl : ClassifyRules(path, pl))
ClassifyTable == [p \in KnownTexts |-> ClassifyText(p)]
classify(path) == IF path \in KnownTexts THEN ClassifyTable[path] ELSE ClassifyText(path)

-----------------------------------------------------------------------------
(* Analysis *)

\* normalize_dir(p): the resolved path when it exists, else the normalized text;
\* an error of exists()/resolve() is swallowed and falls back to normpath
normalize_dir(f, p) ==
  Bind(Expand(p), LAMBDA expanded :
    Bind(Stat(f, expanded), LAMBDA st :
      IF st.kind \in {"dir", "file"} THEN st.real ELSE normpath(expanded)))

\* (mutant) a plain string-prefix test, with no directory boundary
ShadowTestPlainPrefix(a, b) == b # a /\ StartsWith(b, a)

\* True when b lies within a: a is a prefix directory of b
ShadowTest(a, b) == b # a /\ StartsWith(b, RStrip(a, sep) \o sep)

\* (mutant) the scan keeps the last matching earlier position
ShadowPickLast(js) == CHOOSE j \in js : \A k \in js : j >= k

\* the earlier position whose entry the scan of compute_shadowing stops at
ShadowPick(js) == CHOOSE j \in js : \A k \in js : j <= k

\* (mutant) the inner loop scans the earlier entries from the nearest one backwards
compute_shadowingReversed(es) ==
  [i \in 1..Len(es) |->
     Bind({j \in 1..(i - 1) : ShadowTest(es[j].normalized, es[i].normalized)},
          LAMBDA js : IF js = {} THEN es[i]
                      ELSE [es[i] EXCEPT !.shadowed_by =
                              es[CHOOSE j \in js : \A k \in js : k <= j].index])]

\* compute_shadowing(entries)
compute_shadowing(es) ==
  [i \in 1..Len(es) |->
     Bind({j \in 1..(i - 1) : ShadowTest(es[j].normalized, es[i].normalized)},
          LAMBDA js : IF js = {} THEN es[i]
                      ELSE [es[i] EXCEPT !.shadowed_by = es[ShadowPick(js)].index])]

\* enumerate(parts, start=...)
FirstIndex == 1

\* (mutant) seen always records the latest index
SeenUpdateLatest(seen, normalized, idx) == (normalized :> idx) @@ seen

\* the update of seen for a normalized value met at idx
SeenUpdate(seen, normalized, idx) ==
  IF normalized \in DOMAIN seen THEN seen ELSE (normalized :> idx) @@ seen

\* Entry(index=idx, raw=raw, ...) from the values computed by one iteration
EntryOf(idx, raw, expanded, normalized, exists, is_dir, cr, seen) ==
  [index |-> idx, raw |-> raw, expanded |-> expanded, normalized |-> normalized,
   exists |-> exists, is_dir |-> is_dir, category |-> cr[1], reason |-> cr[2],
   duplicate_of |-> IF normalized \in DOMAIN seen THEN seen[normalized] ELSE None,
   shadowed_by |-> None]

\* one iteration of analyze_path's loop (each value is computed once, as in the code)
MakeEntry(f, idx, raw, seen) ==
  Bind(Expand(raw), LAMBDA expanded :
    Bind(normalize_dir(f, raw), LAMBDA normalized :
      Bind(Stat(f, expanded), LAMBDA st :
        EntryOf(idx, raw, expanded, normalized, st.kind \in {"dir", "file"},
                st.kind = "dir", classify(normalized), seen))))

RECURSIVE BuildEntries(_, _, _, _, _)
BuildEntries(f, parts, idx, seen, acc) ==
  IF parts = <<>> THEN acc
  ELSE Bind(MakeEntry(f, idx, Head(parts), seen), LAMBDA en :
         BuildEntries(f, Tail(parts), idx + 1, SeenUpdate(seen, en.normalized, idx),
                      Append(acc, en)))

RECURSIVE GroupFromPrepend(_, _, _)
\* (mutant) a group takes its new entry at the front
GroupFromPrepend(es, i, g) ==
  IF i > Len(es) THEN g
  ELSE LET c == es[i].category IN
       GroupFromPrepend(es, i + 1,
                        IF c \in DOMAIN g THEN [g EXCEPT ![c] = <<es[i].index>> \o @]
                        ELSE (c :> <<es[i].index>>) @@ g)

RECURSIVE GroupFrom(_, _, _)
\* grouped.setdefault(e.category, []).append(e); a group lists its entries by index
GroupFrom(es, i, g) ==
  IF i > Len(es) THEN g
  ELSE LET c == es[i].category IN
       GroupFrom(es, i + 1,
                 IF c \in DOMAIN g THEN [g EXCEPT ![c] = Append(@, es[i].index)]
                 ELSE (c :> <<es[i].index>>) @@ g)

\* (mutant) empty segments are dropped while splitting
SplitPathDropEmpty(raw) == SelectSeq(Split(raw, pathsep), LAMBDA x : x # "")

\* raw_path.split(os.pathsep) if raw_path else []
SplitPath(raw) == IF raw # "" THEN Split(raw, pathsep) ELSE <<>>

\* os.environ.get("PATH", "")
GetPATH(env) == IF env.set THEN env.val ELSE ""

\* analyze_path() raises when p.exists()/p.is_dir() of a segment raises
AnalyzeRaises(env, f) ==
  \E k \in 1..Len(SplitPath(GetPATH(env))) : StatRaises(f, Expand(SplitPath(GetPATH(env))[k]))

\* analyze_path() -> (raw_path, entries, grouped)
analyze_path(env, f) ==
  CHOOSE r \in
    {[raw_path |-> GetPATH(env), entries |-> compute_shadowing(es),
      grouped |-> GroupFrom(es, 1, <<>>)] :
       es \in {BuildEntries(f, SplitPath(GetPATH(env)), FirstIndex, <<>>, <<>>)}} : TRUE

\* not e.exists or not e.is_dir
IsBroken(en) == ~en.exists \/ ~en.is_dir

\* [e for e in entries if (not e.exists or not e.is_dir)]
Broken(es) == SelectSeq(es, IsBroken)

-----------------------------------------------------------------------------
(* Suggestion engine *)

\* the characters of file names in code-point order: Python compares str by code point
Ascii == "$-.0123456789:ABCDEFGHIJKLMNOPQRSTUVWXYZ_abcdefghijklmnopqrstuvwxyz~"
Ord(c) == CHOOSE k \in 1..Len(Ascii) : Char(Ascii, k) = c

RECURSIVE StrLess(_, _)
\* a < b on str
StrLess(a, b) ==
  IF b = "" THEN FALSE
  ELSE IF a = "" THEN TRUE
  ELSE IF Char(a, 1) = Char(b, 1) THEN StrLess(Tail(a), Tail(b))
  ELSE Ord(Char(a, 1)) < Ord(Char(b, 1))

\* the directory entries of d (directories, files and links)
Children(f, d) == {x \in (f.dirs \cup f.files \cup DOMAIN f.links) \ {"/"} : ParentOf(x) = d}

RECURSIVE SortedSeq(_)
\* sorted(...) of sibling paths
SortedSeq(S) ==
  IF S = {} THEN <<>>
  ELSE Bind(CHOOSE x \in S : \A y \in S \ {x} : StrLess(x, y),
            LAMBDA m : <<m>> \o SortedSeq(S \ {m}))

\* the name test of step 3: equal, or one a prefix of the other
NameMatches(name, target_name) ==
  /\ target_name # ""
  /\ (name = target_name \/ StartsWith(name, target_name) \/ StartsWith(target_name, name))

RECURSIVE FindAncestor(_, _)
\* the while loop looking for the closest existing ancestor;
\* state is "found", "none" or "raise"
FindAncestor(f, cursor) ==
  IF StatRaises(f, cursor) THEN [state |-> "raise", path |-> cursor]
  ELSE IF Exists(f, cursor) /\ IsDir(f, cursor) THEN [state |-> "found", path |-> cursor]
  ELSE Bind(ParentOf(cursor), LAMBDA up :
         IF up = cursor THEN [state |-> "none", path |-> cursor]
         ELSE FindAncestor(f, up))

RECURSIVE ScanChildren(_, _, _, _, _)
\* the for loop over sorted(existing_ancestor.iterdir()); full when the limit was hit
ScanChildren(f, kids, target_name, limit, acc) ==
  IF kids = <<>> THEN [list |-> acc, full |-> FALSE]
  ELSE IF ~IsDir(f, Head(kids)) \/ ~NameMatches(NameOf(Head(kids)), target_name)
    THEN ScanChildren(f, Tail(kids), target_name, limit, acc)
  ELSE Bind(Append(acc, Resolve(f, Head(kids))), LAMBDA found :
         IF Len(found) >= limit THEN [list |-> found, full |-> TRUE]
         ELSE ScanChildren(f, Tail(kids), target_name, limit, found))

\* step 3: the children of the existing ancestor that resemble the missing name;
\* an error of iterdir() ends the listing silently
SiblingStep(f, anc, target_name, limit) ==
  IF anc.state # "found" \/ anc.path \in f.denied THEN [list |-> <<>>, full |-> FALSE]
  ELSE Bind(SortedSeq(Children(f, anc.path)), LAMBDA kids :
         ScanChildren(f, kids, target_name, limit, <<>>))

RECURSIVE ScanCandidates(_, _, _, _)
\* for candidate in [cur / "bin", cur / "sbin"]
ScanCandidates(f, cands, limit, acc) ==
  IF cands = <<>> THEN [list |-> acc, full |-> FALSE, raised |-> FALSE]
  ELSE IF StatRaises(f, Head(cands)) THEN [list |-> acc, full |-> FALSE, raised |-> TRUE]
  ELSE IF ~(Exists(f, Head(cands)) /\ IsDir(f, Head(cands)))
          \/ (\E k \in 1..Len(acc) : acc[k] = Resolve(f, Head(cands)))
    THEN ScanCandidates(f, Tail(cands), limit, acc)
  ELSE Bind(Append(acc, Resolve(f, Head(cands))), LAMBDA found :
         IF Len(found) >= limit THEN [list |-> found, full |-> TRUE, raised |-> FALSE]
         ELSE ScanCandidates(f, Tail(cands), limit, found))

\* for _ in range(4)
BinLevels == 4

RECURSIVE BinStep(_, _, _, _, _)
\* step 4: bin/sbin directories under the parent and its ancestors
BinStep(f, cur, n, limit, acc) ==
  IF n = 0 THEN [list |-> acc, full |-> FALSE, raised |-> FALSE]
  ELSE IF StatRaises(f, cur) THEN [list |-> acc, full |-> FALSE, raised |-> TRUE]
  ELSE Bind(IF Exists(f, cur) /\ IsDir(f, cur)
            THEN ScanCandidates(f, <<ChildPath(cur, "bin"), ChildPath(cur, "sbin")>>,
                                limit, acc)
            ELSE [list |-> acc, full |-> FALSE, raised |-> FALSE],
            LAMBDA here : Bind(ParentOf(cur), LAMBDA up :
              IF here.full \/ here.raised \/ up = cur THEN here
              ELSE BinStep(f, up, n - 1, limit, here.list)))

\* suggestions[:limit]
Truncate(list, limit) == SubSeq(list, 1, IF limit < Len(list) THEN limit ELSE Len(list))

\* the two steps on the normalized path p
SuggestFrom(f, p, limit) ==
  Bind(FindAncestor(f, p), LAMBDA anc : Bind(NameOf(p), LAMBDA target_name :
    IF anc.state = "raise" THEN [raised |-> TRUE, list |-> <<>>]
    ELSE Bind(SiblingStep(f, anc, target_name, limit), LAMBDA s3 :
      IF s3.full THEN [raised |-> FALSE, list |-> s3.list]
      ELSE IF target_name \notin {"bin", "sbin"}
        THEN [raised |-> FALSE, list |-> Truncate(s3.list, limit)]
      ELSE Bind(BinStep(f, ParentOf(p), BinLevels, limit, s3.list), LAMBDA s4 :
        IF s4.raised THEN [raised |-> TRUE, list |-> <<>>]
        ELSE IF s4.full THEN [raised |-> FALSE, list |-> s4.list]
        ELSE [raised |-> FALSE, list |-> Truncate(s4.list, limit)]))))

\* suggest_alternatives(broken_path, limit) -> [raised, list]
suggest_alternatives(f, broken_path, limit) ==
  Bind(PathStr(normalize_dir(f, broken_path)), LAMBDA p : SuggestFrom(f, p, limit))

\* the default limit of suggest_alternatives
DefaultLimit == 8

\* Path(p).mkdir(parents=True, exist_ok=True) -> [ok, fs]
RECURSIVE MkdirP(_, _)
MkdirP(f, p) ==
  Bind(Stat(f, p), LAMBDA st :
    IF st.kind = "dir" THEN [ok |-> TRUE, fs |-> f]
    ELSE IF st.kind \in {"file", "denied"} THEN [ok |-> FALSE, fs |-> f]
    ELSE IF ParentOf(p) = p THEN [ok |-> FALSE, fs |-> f]
    ELSE Bind(MkdirP(f, ParentOf(p)), LAMBDA up :
      IF ~up.ok THEN [ok |-> FALSE, fs |-> f]
      ELSE Bind(Stat(up.fs, ParentOf(p)), LAMBDA par :
        Bind(ChildPath(par.real, NameOf(p)), LAMBDA new :
          IF par.kind # "dir" \/ par.real \in up.fs.denied
             \/ new \in up.fs.files \/ new \in DOMAIN up.fs.links
          THEN [ok |-> FALSE, fs |-> f]
          ELSE [ok |-> TRUE, fs |-> [up.fs EXCEPT !.dirs = @ \cup {new}]]))))

-----------------------------------------------------------------------------
(* Inputs *)

\* all PATH strings of at most n segments drawn from S
PathsUpTo(S, n) == {Join(ps, pathsep) : ps \in UNION {[1..k -> S] : k \in 0..n}}

\* segments of the PATH strings the snapshot builder is run on
SegsA == {"", "/", "/a", "/a/", "/a/b", "/ab", "~", "$HOME", "/l"}

\* segments of the PATH strings a fix session starts from
SegsS == {"/a", "/a/b", "/f"}

\* a populated filesystem; /l is a link to /a
FsFull == [dirs |-> {"/", "/h", "/a", "/a/b", "/ab"}, files |-> {"/f"},
           links |-> ("/l" :> "/a"), denied |-> {}]

\* a nearly empty filesystem; /l dangles
FsBare == [dirs |-> {"/", "/h"}, files |-> {},
           links |-> ("/l" :> "/a"), denied |-> {}]

\* the filesystem a fix session starts on: /a/b is missing, /a/b1 is its sibling, /f is a file
FsSession == [dirs |-> {"/", "/h", "/a", "/a/b1"}, files |-> {"/f"},
              links |-> <<>>, denied |-> {}]

NoEntry == [index |-> 0]
NoLast == [op |-> "none"]

\* what the user can type at the replacement prompt (besides 'b' and an empty line):
\* an existing directory, a missing one, one under a file, one with the separator in it
TypedPaths == {"/a", "/f/x", "/a:/a"}

-----------------------------------------------------------------------------
(* main *)

InitWith(env, f, s) ==
  /\ environ = env
  /\ fs = f
  /\ strict = s
  /\ pc = "main"
  /\ raw_path = ""
  /\ entries = <<>>
  /\ grouped = <<>>
  /\ current_parts = <<>>
  /\ current_raw = ""
  /\ current_entries = <<>>
  /\ cmd = ""
  /\ e = NoEntry
  /\ alts = <<>>
  /\ typed = ""
  /\ norm = ""
  /\ caller = ""
  /\ log = <<>>
  /\ out = <<>>
  /\ hist = [env0 |-> env, started |-> FALSE, external |-> FALSE, last |-> NoLast]

\* main, lines 722-750: the first analysis, then the offer to fix
MainAnalyze ==
  /\ pc = "main"
  /\ IF AnalyzeRaises(environ, fs)
     THEN /\ pc' = "raised"
          /\ UNCHANGED <<raw_path, entries, grouped>>
     ELSE \E r \in {analyze_path(environ, fs)} :
          /\ raw_path' = r.raw_path
          /\ entries' = r.entries
          /\ grouped' = r.grouped
          /\ pc' = IF Broken(r.entries) # <<>> THEN "offer_fix" ELSE "done"
  /\ UNCHANGED <<environ, fs, strict, current_parts, current_raw, current_entries,
                 cmd, e, alts, typed, norm, caller, log, out, hist>>

\* main, line 750: the user declines the offer
DeclineFix ==
  /\ pc = "offer_fix"
  /\ pc' = "done"
  /\ UNCHANGED <<environ, fs, strict, raw_path, entries, grouped, current_parts,
                 current_raw, current_entries, cmd, e, alts, typed, norm, caller, log, out, hist>>

-----------------------------------------------------------------------------
(* interactive_fix_broken_paths *)

\* rebuild_path(parts)
rebuild_path(parts) == Join(SelectSeq(parts, LAMBDA x : x # ""), pathsep)

\* (mutant) the old PATH is put back only when analyze_path returns
reanalyze_with_no_finally(env, path_value, f) ==
  IF AnalyzeRaises([set |-> TRUE, val |-> path_value], f)
  THEN [environ |-> [set |-> TRUE, val |-> path_value], raised |-> TRUE,
        raw_path |-> "", entries |-> <<>>]
  ELSE CHOOSE r \in
         {[environ |-> [set |-> TRUE, val |-> GetPATH(env)], raised |-> FALSE,
           raw_path |-> a.raw_path, entries |-> a.entries] :
            a \in {analyze_path([set |-> TRUE, val |-> path_value], f)}} : TRUE

\* reanalyze_with(path_value): environ is os.environ after the finally clause
reanalyze_with(env, path_value, f) ==
  IF AnalyzeRaises([set |-> TRUE, val |-> path_value], f)
  THEN [environ |-> [set |-> TRUE, val |-> GetPATH(env)], raised |-> TRUE,
        raw_path |-> "", entries |-> <<>>]
  ELSE CHOOSE r \in
         {[environ |-> [set |-> TRUE, val |-> GetPATH(env)], raised |-> FALSE,
           raw_path |-> a.raw_path, entries |-> a.entries] :
            a \in {analyze_path([set |-> TRUE, val |-> path_value], f)}} : TRUE

\* next((x for x in current_entries if x.index == target_idx), None)
FindEntry(es, target_idx) ==
  IF \E k \in 1..Len(es) : es[k].index = target_idx
  THEN es[CHOOSE k \in 1..Len(es) :
            es[k].index = target_idx /\ \A m \in 1..(k - 1) : es[m].index # target_idx]
  ELSE NoEntry

\* parts.pop(i0) and parts[i0] = v (i0 counts from 0)
ListPop(parts, i0) == SubSeq(parts, 1, i0) \o SubSeq(parts, i0 + 2, Len(parts))
\* (mutant) the assignment lands one position after the entry's
ListSetShifted(parts, i0, v) ==
  IF i0 + 2 \in DOMAIN parts THEN [parts EXCEPT ![i0 + 2] = v] ELSE Append(parts, v)

ListSet(parts, i0, v) == [parts EXCEPT ![i0 + 1] = v]

\* an uncaught exception ends the process
Raise == pc' = "raised"

\* continue: back to the top of the while loop at line 523; cmd is read anew there
Continue == pc' = "loop" /\ cmd' = ""

\* what a step printed and logged: out holds the lines the step printed, log the
\* records it wrote, both in order (o and l are those made so far)
Line(m) == [msg |-> m]
Says(o, m) == Append(o, Line(m))
Logs(l, kind) == Append(l, kind)

\* the step changed current_parts: the entry it was called for and the list before
Mutated == hist' = [hist EXCEPT !.last = [index |-> e.index, raw |-> e.raw,
                                           before |-> current_parts]]
NotMutated == hist' = [hist EXCEPT !.last = NoLast]

\* interactive_fix_broken_paths, lines 497-521: from the user's yes to the first prompt
StartSession ==
  /\ pc = "offer_fix"
  /\ \E parts \in {SelectSeq(SplitPath(raw_path), LAMBDA x : x # "")} :
     \E r \in {reanalyze_with(environ, rebuild_path(parts), fs)} :
       /\ current_parts' = parts
       /\ environ' = r.environ
       /\ log' = <<"Original PATH">> /\ out' = <<Line("Interactive PATH Fix Mode")>>
       /\ hist' = [hist EXCEPT !.started = TRUE]
       /\ IF r.raised
          THEN Raise /\ UNCHANGED <<current_raw, current_entries>>
          ELSE pc' = "loop" /\ current_raw' = r.raw_path /\ current_entries' = r.entries
  /\ UNCHANGED <<fs, strict, raw_path, entries, grouped, cmd, e, alts, typed, norm, caller>>

\* lines 524-525: the broken list is printed and the process waits at the Fix> prompt
ShowList ==
  /\ pc = "loop"
  /\ pc' = "Fix"
  /\ out' = <<[msg |-> "Broken PATH entries:",
               broken |-> [k \in 1..Len(Broken(current_entries)) |->
                             Broken(current_entries)[k].index]]>>
  /\ log' = <<>>
  /\ NotMutated
  /\ UNCHANGED <<environ, fs, strict, raw_path, entries, grouped, current_parts,
                 current_raw, current_entries, cmd, e, alts, typed, norm, caller>>

\* the regrouping of main, lines 762-767: grouped, and os.environ after the finally
MainRegroup(env, path_value, f) ==
  IF AnalyzeRaises([set |-> TRUE, val |-> path_value], f)
  THEN [environ |-> [set |-> TRUE, val |-> GetPATH(env)], raised |-> TRUE, grouped |-> <<>>]
  ELSE [environ |-> [set |-> TRUE, val |-> GetPATH(env)], raised |-> FALSE,
        grouped |-> analyze_path([set |-> TRUE, val |-> path_value], f).grouped]

\* cmd == "q": lines 527-529 and 592-603, then main lines 760-767
CmdQuit ==
  /\ pc = "Fix"
  /\ \E r \in {reanalyze_with(environ, rebuild_path(current_parts), fs)} :
       IF r.raised
       THEN /\ Raise
            /\ environ' = r.environ
            /\ UNCHANGED <<raw_path, entries, grouped>>
       ELSE \E g \in {MainRegroup(r.environ, r.raw_path, fs)} :
            /\ raw_path' = r.raw_path
            /\ entries' = r.entries
            /\ environ' = g.environ
            /\ IF g.raised THEN Raise /\ UNCHANGED grouped
               ELSE pc' = "done" /\ grouped' = g.grouped
  /\ log' = <<"Fix session quit by user", "Proposed PATH">>
  /\ out' = <<Line("Fix mode finished.")>>
  /\ cmd' = "q"
  /\ NotMutated
  /\ UNCHANGED <<fs, strict, current_parts, current_raw, current_entries,
                 e, alts, typed, norm, caller>>

\* (mutant) the preview keeps its snapshot as the session's current one
CmdPreviewStoresSnapshot ==
  /\ pc = "Fix"
  /\ \E r \in {reanalyze_with(environ, rebuild_path(current_parts), fs)} :
       /\ environ' = r.environ
       /\ IF r.raised
          THEN Raise /\ cmd' = "p" /\ log' = <<>>
               /\ out' = <<[msg |-> "Proposed export line:",
                            proposed |-> rebuild_path(current_parts)]>>
               /\ UNCHANGED <<current_raw, current_entries>>
          ELSE /\ Continue
               /\ out' = <<[msg |-> "Proposed export line:",
                            proposed |-> rebuild_path(current_parts)],
                           [msg |-> "Summary: broken now", n |-> Len(Broken(r.entries))]>>
               /\ log' = <<"Preview requested">>
               /\ current_raw' = r.raw_path /\ current_entries' = r.entries
  /\ NotMutated
  /\ UNCHANGED <<fs, strict, raw_path, entries, grouped, current_parts,
                 e, alts, typed, norm, caller>>

\* cmd == "p": lines 531-544
CmdPreview ==
  /\ pc = "Fix"
  /\ \E r \in {reanalyze_with(environ, rebuild_path(current_parts), fs)} :
       /\ environ' = r.environ
       /\ IF r.raised
          THEN Raise /\ cmd' = "p" /\ log' = <<>>
               /\ out' = <<[msg |-> "Proposed export line:",
                            proposed |-> rebuild_path(current_parts)]>>
          ELSE /\ Continue
               /\ out' = <<[msg |-> "Proposed export line:",
                            proposed |-> rebuild_path(current_parts)],
                           [msg |-> "Summary: broken now", n |-> Len(Broken(r.entries))]>>
               /\ log' = <<"Preview requested">>
  /\ NotMutated
  /\ UNCHANGED <<fs, strict, raw_path, entries, grouped, current_parts, current_raw,
                 current_entries, e, alts, typed, norm, caller>>

\* a command that is neither q, p, a nor a number: lines 574-576
CmdOther ==
  /\ pc = "Fix"
  /\ Continue
  /\ out' = <<Line("Enter a number, or a/p/q.")>> /\ log' = <<>>
  /\ NotMutated
  /\ UNCHANGED <<environ, fs, strict, raw_path, entries, grouped, current_parts,
                 current_raw, current_entries, e, alts, typed, norm, caller>>

\* the locals of _apply_fix_for_entry when no call of it is running
NoCall == e' = NoEntry /\ alts' = <<>> /\ caller' = ""

\* _apply_fix_for_entry, lines 608-633, up to the action prompt: called for the entry en
\* of the snapshot es, from cl ("guided" or "numeric") under the command c, on the list
\* parts and the filesystem f. A mismatch returns at once: into the next iteration of
\* the guided loop (line 572), or to line 590 and the Fix> prompt.
ApplyStart(en, es, cl, c, parts, f, o, l) ==
  IF en.index - 1 < 0 \/ en.index - 1 >= Len(parts)
  THEN /\ out' = Says(o, "Internal index mismatch; skipping.")
       /\ log' = Logs(l, "Index mismatch")
       /\ NoCall
       /\ IF cl = "guided"
          THEN /\ pc' = "guided" /\ cmd' = c /\ environ' = es.environ
               /\ current_raw' = es.raw_path /\ current_entries' = es.entries
          ELSE \E r \in {reanalyze_with(es.environ, rebuild_path(parts), f)} :
                 /\ environ' = r.environ
                 /\ IF r.raised
                    THEN /\ Raise /\ cmd' = c
                         /\ current_raw' = es.raw_path /\ current_entries' = es.entries
                    ELSE /\ Continue
                         /\ current_raw' = r.raw_path /\ current_entries' = r.entries
  ELSE \E sg \in {suggest_alternatives(f, en.raw, DefaultLimit)} :
       /\ current_raw' = es.raw_path /\ current_entries' = es.entries
       /\ environ' = es.environ
       /\ cmd' = c
       /\ out' = Says(o, "Fixing entry")
       /\ log' = l
       /\ IF sg.raised
          THEN Raise /\ NoCall
          ELSE pc' = "Action" /\ e' = en /\ alts' = sg.list /\ caller' = cl

\* (mutant) the numeric handler does not test that the selected entry is broken
NumericOnNoBrokenCheck(r, c, parts, f, o, l) ==
  \E en \in {FindEntry(r.entries, ToInt(c))} :
    IF r.raised
    THEN /\ Raise /\ cmd' = c /\ environ' = r.environ
         /\ UNCHANGED <<current_raw, current_entries>>
         /\ NoCall /\ out' = o /\ log' = l
    ELSE IF en = NoEntry
    THEN /\ Continue
         /\ environ' = r.environ
         /\ current_raw' = r.raw_path /\ current_entries' = r.entries
         /\ NoCall
         /\ out' = Says(o, "Entry not found.")
         /\ log' = l
    ELSE ApplyStart(en, r, "numeric", c, parts, f, o, l)

\* the numeric handler, lines 579-590, for the command c and the snapshot r of line 580
NumericOn(r, c, parts, f, o, l) ==
  \E en \in {FindEntry(r.entries, ToInt(c))} :
    IF r.raised
    THEN /\ Raise /\ cmd' = c /\ environ' = r.environ
         /\ UNCHANGED <<current_raw, current_entries>>
         /\ NoCall /\ out' = o /\ log' = l
    ELSE IF en = NoEntry \/ ~IsBroken(en)
    THEN /\ Continue
         /\ environ' = r.environ
         /\ current_raw' = r.raw_path /\ current_entries' = r.entries
         /\ NoCall
         /\ out' = Says(o, IF en = NoEntry THEN "Entry not found." ELSE "Entry is not broken.")
         /\ log' = l
    ELSE ApplyStart(en, r, "numeric", c, parts, f, o, l)

\* the numeric handler, lines 578-590, for the command c
NumericHandler(c, env, parts, f, o, l) ==
  \E r \in {reanalyze_with(env, rebuild_path(parts), f)} : NumericOn(r, c, parts, f, o, l)

\* (mutant) the guided loop targets the last broken entry of the snapshot
GuidedLoopLast(c, parts, f, o, l) ==
  \E r \in {reanalyze_with(environ, rebuild_path(parts), f)} :
    IF r.raised
    THEN /\ Raise /\ cmd' = c /\ environ' = r.environ
         /\ UNCHANGED <<current_raw, current_entries>>
         /\ NoCall /\ out' = o /\ log' = l
    ELSE IF Broken(r.entries) = <<>>
    THEN IF IsDigit(c)
         THEN NumericHandler(c, r.environ, parts, f, Says(o, "No broken entries remain."), l)
         ELSE /\ Continue
              /\ environ' = r.environ
              /\ current_raw' = r.raw_path /\ current_entries' = r.entries
              /\ NoCall
              /\ out' = Says(Says(o, "No broken entries remain."), "Enter a number, or a/p/q.")
              /\ log' = l
    ELSE \E en \in {FindEntry(r.entries, Broken(r.entries)[Len(Broken(r.entries))].index)} :
           ApplyStart(en, r, "guided", ToStr(en.index), parts, f, o, l)

\* the guided loop, lines 549-572, from the top of an iteration to the next input();
\* c is cmd as the last iteration left it. Leaving the loop falls through to line 574.
GuidedLoop(c, parts, f, o, l) ==
  \E r \in {reanalyze_with(environ, rebuild_path(parts), f)} :
    IF r.raised
    THEN /\ Raise /\ cmd' = c /\ environ' = r.environ
         /\ UNCHANGED <<current_raw, current_entries>>
         /\ NoCall /\ out' = o /\ log' = l
    ELSE IF Broken(r.entries) = <<>>
    THEN IF IsDigit(c)
         THEN NumericHandler(c, r.environ, parts, f, Says(o, "No broken entries remain."), l)
         ELSE /\ Continue
              /\ environ' = r.environ
              /\ current_raw' = r.raw_path /\ current_entries' = r.entries
              /\ NoCall
              /\ out' = Says(Says(o, "No broken entries remain."), "Enter a number, or a/p/q.")
              /\ log' = l
    ELSE \E en \in {FindEntry(r.entries, Broken(r.entries)[1].index)} :
           ApplyStart(en, r, "guided", ToStr(en.index), parts, f, o, l)

\* cmd == "a": line 547
CmdGuided ==
  /\ pc = "Fix"
  /\ GuidedLoop("a", current_parts, fs, <<>>, <<>>)
  /\ NotMutated
  /\ UNCHANGED <<fs, strict, raw_path, entries, grouped, current_parts, typed, norm>>

\* a number typed at the prompt
CmdNumber ==
  /\ pc = "Fix"
  /\ \E r \in {reanalyze_with(environ, rebuild_path(current_parts), fs)} :
     \E n \in 0..(MaxParts + 1) :
       NumericOn(r, ToStr(n), current_parts, fs, <<>>, <<>>)
  /\ NotMutated
  /\ UNCHANGED <<fs, strict, raw_path, entries, grouped, current_parts, typed, norm>>

\* the guided loop goes round again without reading input (after a mismatch)
GuidedIter ==
  /\ pc = "guided"
  /\ GuidedLoop(cmd, current_parts, fs, <<>>, <<>>)
  /\ NotMutated
  /\ UNCHANGED <<fs, strict, raw_path, entries, grouped, current_parts, typed, norm>>

-----------------------------------------------------------------------------
(* _apply_fix_for_entry, from the action prompt on *)

\* the return of _apply_fix_for_entry with parts and the filesystem as the call left
\* them: into the guided loop (line 572), or to line 590 and the Fix> prompt
ReturnFromFix(newparts, f1, o, l) ==
  IF caller = "guided"
  THEN GuidedLoop(cmd, newparts, f1, o, l)
  ELSE \E r \in {reanalyze_with(environ, rebuild_path(newparts), f1)} :
         /\ environ' = r.environ
         /\ NoCall /\ out' = o /\ log' = l
         /\ IF r.raised
            THEN Raise /\ UNCHANGED <<current_raw, current_entries, cmd>>
            ELSE Continue /\ current_raw' = r.raw_path /\ current_entries' = r.entries

\* the call returns with the new list newparts on the filesystem f1
ReturnChanged(newparts, f1, o, l) ==
  /\ ReturnFromFix(newparts, f1, o, l)
  /\ current_parts' = newparts
  /\ fs' = f1
  /\ Mutated
  /\ typed' = "" /\ norm' = ""
  /\ UNCHANGED <<strict, raw_path, entries, grouped>>

\* (mutant) a return that should change nothing falls through to the removal
ReturnUnchangedFallsThrough(o, l) ==
  ReturnChanged(ListPop(current_parts, e.index - 1), fs, o, l)

\* the call returns without having changed anything
ReturnUnchanged(o, l) ==
  /\ ReturnFromFix(current_parts, fs, o, l)
  /\ NotMutated
  /\ typed' = "" /\ norm' = ""
  /\ UNCHANGED <<fs, strict, raw_path, entries, grouped, current_parts>>

\* action == "b": lines 634-635
ActBack ==
  /\ pc = "Action"
  /\ ReturnUnchanged(<<>>, <<>>)

\* an action outside 1-5/b: lines 636-638
ActInvalid ==
  /\ pc = "Action"
  /\ ReturnUnchanged(<<Line("Invalid action.")>>, <<>>)

\* action == "1": lines 640-642
ActKeep ==
  /\ pc = "Action"
  /\ ReturnUnchanged(<<>>, <<"KEEP">>)

\* action == "2": lines 644-648
ActRemove ==
  /\ pc = "Action"
  /\ ReturnChanged(ListPop(current_parts, e.index - 1), fs,
                   <<[msg |-> "Removed", text |-> current_parts[e.index]]>>, <<"REMOVE">>)

\* the prompts inside _apply_fix_for_entry: nothing returns, nothing changes
StayInCall(p, t, nm, o, l) ==
  /\ pc' = p
  /\ typed' = t /\ norm' = nm
  /\ out' = o /\ log' = l
  /\ NotMutated
  /\ UNCHANGED <<environ, fs, strict, raw_path, entries, grouped, current_parts,
                 current_raw, current_entries, cmd, e, alts, caller>>

\* action == "3": line 650, on to the replacement prompt
ActReplace ==
  /\ pc = "Action"
  /\ StayInCall("Replacement", "", "", <<>>, <<>>)

\* typed == 'b' at the replacement prompt: lines 653-654
TypeBack ==
  /\ pc = "Replacement"
  /\ ReturnUnchanged(<<>>, <<>>)

\* an empty line at the replacement prompt: lines 655-657
TypeEmpty ==
  /\ pc = "Replacement"
  /\ StayInCall("Replacement", "", "", <<Line("Replacement cannot be empty.")>>, <<>>)

\* a path typed at the replacement prompt: lines 658-666
TypePath ==
  /\ pc = "Replacement"
  /\ \E t \in TypedPaths : \E nm \in {normalize_dir(fs, t)} :
       IF StatRaises(fs, nm)
       THEN /\ Raise
            /\ typed' = t /\ norm' = nm
            /\ out' = <<>> /\ log' = <<>>
            /\ NotMutated
            /\ UNCHANGED <<environ, fs, strict, raw_path, entries, grouped, current_parts,
                           current_raw, current_entries, cmd, e, alts, caller>>
       ELSE IF Exists(fs, nm) /\ IsDir(fs, nm)
       THEN ReturnChanged(ListSet(current_parts, e.index - 1, t), fs,
                          <<[msg |-> "Replaced with", text |-> nm]>>, <<"REPLACE(manual)">>)
       ELSE StayInCall("Create", t, nm, <<[msg |-> "Does not exist", text |-> nm]>>, <<>>)

\* yn == "y" at the create prompt: lines 667-676
CreateYes ==
  /\ pc = "Create"
  /\ \E m \in {MkdirP(fs, norm)} :
       IF m.ok
       THEN ReturnChanged(ListSet(current_parts, e.index - 1, typed), m.fs,
                          <<[msg |-> "Created and replaced with", text |-> norm]>>,
                          <<"REPLACE+MKDIR(manual)">>)
       ELSE StayInCall("Replacement", "", "", <<Line("Failed to create directory")>>,
                       <<"MKDIR FAILED">>)

\* any other answer at the create prompt: back to the replacement prompt
CreateNo ==
  /\ pc = "Create"
  /\ StayInCall("Replacement", "", "", <<>>, <<>>)

\* action == "4": lines 678-683
ActSuggest ==
  /\ pc = "Action"
  /\ IF alts = <<>>
     THEN ReturnUnchanged(<<Line("No suggestions available.")>>, <<"SUGGESTION_NONE">>)
     ELSE StayInCall("Pick", "", "", <<>>, <<>>)

\* pick == 'b': lines 684-685
PickBack ==
  /\ pc = "Pick"
  /\ ReturnUnchanged(<<>>, <<>>)

\* (mutant) the picked suggestion is substituted without the second look at the disk
PickValidNoRecheck ==
  /\ pc = "Pick"
  /\ \E k \in 1..Len(alts) :
       ReturnChanged(ListSet(current_parts, e.index - 1, alts[k]), fs,
                     <<[msg |-> "Replaced with suggestion", text |-> alts[k]]>>,
                     <<"REPLACE(suggested)">>)

\* a number within 1..len(alts): lines 686-694
PickValid ==
  /\ pc = "Pick"
  /\ \E k \in 1..Len(alts) :
       IF StatRaises(fs, alts[k])
       THEN /\ Raise
            /\ out' = <<>> /\ log' = <<>>
            /\ NotMutated
            /\ UNCHANGED <<environ, fs, strict, raw_path, entries, grouped, current_parts,
                           current_raw, current_entries, cmd, e, alts, typed, norm, caller>>
       ELSE IF Exists(fs, alts[k]) /\ IsDir(fs, alts[k])
       THEN ReturnChanged(ListSet(current_parts, e.index - 1, alts[k]), fs,
                          <<[msg |-> "Replaced with suggestion", text |-> alts[k]]>>,
                          <<"REPLACE(suggested)">>)
       ELSE ReturnUnchanged(<<Line("Suggestion is not a valid directory.")>>,
                            <<"SUGGESTED_INVALID">>)

\* anything else at the pick prompt: lines 695-697
PickInvalid ==
  /\ pc = "Pick"
  /\ ReturnUnchanged(<<Line("Invalid selection.")>>, <<>>)

\* action == "5": lines 699-710
ActMkdir ==
  /\ pc = "Action"
  /\ \E m \in {MkdirP(fs, normalize_dir(fs, e.raw))} :
       IF m.ok
       THEN ReturnChanged(ListSet(current_parts, e.index - 1, e.raw), m.fs,
                          <<Line("Created directory and kept entry")>>, <<"MKDIR">>)
       ELSE ReturnUnchanged(<<Line("Failed to create directory")>>, <<"MKDIR FAILED">>)

-----------------------------------------------------------------------------
(* The world outside the process *)

\* the prompts at which the process blocks on input()
Prompts == {"offer_fix", "Fix", "Action", "Replacement", "Create", "Pick"}

\* another process removes the directory /a/b1 while the user is at a prompt
ExtRemove ==
  /\ pc \in Prompts
  /\ ~hist.external
  /\ "/a/b1" \in fs.dirs
  /\ Children(fs, "/a/b1") = {}
  /\ fs' = [fs EXCEPT !.dirs = @ \ {"/a/b1"}]
  /\ hist' = [hist EXCEPT !.external = TRUE]
  /\ UNCHANGED <<environ, strict, pc, raw_path, entries, grouped, current_parts,
                 current_raw, current_entries, cmd, e, alts, typed, norm, caller, log, out>>

\* another process makes /a unsearchable while the user is at a prompt, under a
\* Python whose Path.exists() raises on it (nothing reads strict before this)
ExtDeny ==
  /\ pc \in Prompts
  /\ ~hist.external
  /\ "/a" \in fs.dirs \ fs.denied
  /\ fs' = [fs EXCEPT !.denied = @ \cup {"/a"}]
  /\ strict' = TRUE
  /\ hist' = [hist EXCEPT !.external = TRUE]
  /\ UNCHANGED <<environ, pc, raw_path, entries, grouped, current_parts,
                 current_raw, current_entries, cmd, e, alts, typed, norm, caller, log, out>>

-----------------------------------------------------------------------------
(* The program *)

Init ==
  \E env \in {[set |-> TRUE, val |-> p] : p \in PathsUpTo(SegsS, MaxParts)}
             \cup {[set |-> FALSE, val |-> ""]} :
    InitWith(env, FsSession, FALSE)

Next ==
  \/ MainAnalyze
  \/ DeclineFix
  \/ StartSession
  \/ ShowList
  \/ CmdQuit
  \/ CmdPreview
  \/ CmdOther
  \/ CmdGuided
  \/ CmdNumber
  \/ GuidedIter
  \/ ActBack
  \/ ActInvalid
  \/ ActKeep
  \/ ActRemove
  \/ ActReplace
  \/ TypeBack
  \/ TypeEmpty
  \/ TypePath
  \/ CreateYes
  \/ CreateNo
  \/ ActSuggest
  \/ PickBack
  \/ PickValid
  \/ PickInvalid
  \/ ActMkdir
  \/ ExtRemove
  \/ ExtDeny

Spec == Init /\ [][Next]_vars

-----------------------------------------------------------------------------
(* The snapshot builder run on every PATH string of the bound *)

InitA ==
  \E env \in {[set |-> TRUE, val |-> p] : p \in PathsUpTo(SegsA, MaxSegs)}
             \cup {[set |-> FALSE, val |-> ""]},
     f \in {FsFull, FsBare} :
       \E s \in BOOLEAN : InitWith(env, f, s)

NextA == MainAnalyze

SpecAnalyze == InitA /\ [][NextA]_vars

-----------------------------------------------------------------------------
(* suggest_alternatives run on every broken path, filesystem and limit of the bound *)

\* the paths suggestions are asked for
SegsG == {"/a/b", "/a/bin", "/a/x/bin", "/f", "/opt/toolX/1.2/bin"}

\* the directories a filesystem of the bound may hold besides / and the home directory
FsPool == {"/a", "/a/b1", "/a/bin", "/a/sbin", "/opt", "/opt/toolX", "/opt/toolX/1.3",
           "/opt/toolX/1.3/bin", "/opt/toolX/bin"}

\* a directory exists only inside an existing directory
ParentClosed(S) == \A x \in S : ParentOf(x) = "/" \/ ParentOf(x) \in S

FsChoices ==
  {[dirs |-> {"/", "/h"} \cup S, files |-> {"/f"}, links |-> <<>>, denied |-> d] :
     S \in {T \in SUBSET FsPool : ParentClosed(T)}, d \in {{}, {"/a"}}}

\* limit: int = 8, and the small limits
Limits == 0..MaxLimit \cup {DefaultLimit}

\* e holds the arguments of the call
InitSuggest ==
  \E f \in FsChoices, s \in BOOLEAN, p \in SegsG, n \in Limits :
    /\ f.denied \subseteq f.dirs
    /\ environ = [set |-> FALSE, val |-> ""]
    /\ fs = f /\ strict = s
    /\ pc = "call"
    /\ e = [index |-> None, raw |-> p, limit |-> n]
    /\ raw_path = "" /\ entries = <<>> /\ grouped = <<>> /\ current_parts = <<>>
    /\ current_raw = "" /\ current_entries = <<>> /\ cmd = "" /\ alts = <<>>
    /\ typed = "" /\ norm = "" /\ caller = "" /\ log = <<>> /\ out = <<>>
    /\ hist = [env0 |-> environ, started |-> FALSE, external |-> FALSE, last |-> NoLast]

\* suggest_alternatives(broken_path, limit), lines 411-471
CallSuggest ==
  /\ pc = "call"
  /\ \E sg \in {suggest_alternatives(fs, e.raw, e.limit)} :
       /\ alts' = sg.list
       /\ pc' = IF sg.raised THEN "raised" ELSE "returned"
  /\ UNCHANGED <<environ, fs, strict, raw_path, entries, grouped, current_parts,
                 current_raw, current_entries, cmd, e, typed, norm, caller, log, out, hist>>

NextSuggest == CallSuggest

SpecSuggest == InitSuggest /\ [][NextSuggest]_vars

-----------------------------------------------------------------------------
(* classify run on every path text of the bound *)

\* the path texts classify is run on: a head, a middle and a tail
ClassifyHeads == {"", "/usr/bin", "/Developer", "/opt/homebrew", "/usr/local", "/x", HOME}
ClassifyMids == {"", "/Cellar/foo/1.0", "/pyenv", "/Node", "/jdk", "/go", "/cargo", "/ruby",
                 "/sdk", "/.local", "/aws", "/databricks", "/redis",
                 "/versions/node/v18", "/python3.11", "/Python3", "/versions/v18"}
ClassifyTails == {"", "/bin"}
ClassifyInputs == {h \o m \o t : h \in ClassifyHeads, m \in ClassifyMids, t \in ClassifyTails}

\* e holds the argument of the call
InitClassify ==
  \E p \in ClassifyInputs :
    /\ environ = [set |-> FALSE, val |-> ""]
    /\ fs = FsBare /\ strict = FALSE
    /\ pc = "call"
    /\ e = [index |-> None, raw |-> p]
    /\ raw_path = "" /\ entries = <<>> /\ grouped = <<>> /\ current_parts = <<>>
    /\ current_raw = "" /\ current_entries = <<>> /\ cmd = "" /\ alts = <<>>
    /\ typed = "" /\ norm = "" /\ caller = "" /\ log = <<>> /\ out = <<>>
    /\ hist = [env0 |-> environ, started |-> FALSE, external |-> FALSE, last |-> NoLast]

\* classify(path), lines 100-131: e takes the category and the reason returned
CallClassify ==
  /\ pc = "call"
  /\ \E cr \in {classify(e.raw)} :
       e' = [index |-> None, raw |-> e.raw, category |-> cr[1], reason |-> cr[2]]
  /\ pc' = "returned"
  /\ UNCHANGED <<environ, fs, strict, raw_path, entries, grouped, current_parts,
                 current_raw, current_entries, cmd, alts, typed, norm, caller, log, out,
                 hist>>

NextClassify == CallClassify

SpecClassify == InitClassify /\ [][NextClassify]_vars

-----------------------------------------------------------------------------
(* Properties of a snapshot *)

\* the snapshots the program holds: (PATH string, entry list)
Snapshots == {<<raw_path, entries>>, <<current_raw, current_entries>>}

\* positions of the separators of a PATH string, and its segments read off them
SepPositions(raw) == {i \in 1..Len(raw) : Char(raw, i) = pathsep}
NumSegments(raw) == IF raw = "" THEN 0 ELSE Cardinality(SepPositions(raw)) + 1
NthSep(raw, n) ==
  CHOOSE q \in SepPositions(raw) : Cardinality({r \in SepPositions(raw) : r < q}) = n - 1
SegmentAt(raw, i) ==
  SubSeq(raw, IF i = 1 THEN 1 ELSE NthSep(raw, i - 1) + 1,
              IF i = NumSegments(raw) THEN Len(raw) ELSE NthSep(raw, i) - 1)

\* a is a strict ancestor directory of b: same root, and the components of a are a
\* proper prefix of the components of b
StrictAncestor(a, b) ==
  /\ RootOf(a) = RootOf(b)
  /\ Len(PartsOf(a)) < Len(PartsOf(b))
  /\ SubSeq(PartsOf(b), 1, Len(PartsOf(a))) = PartsOf(a)

\* the earlier positions whose entry is a strict ancestor of entry i
AncestorsBefore(es, i) == {j \in 1..(i - 1) : StrictAncestor(es[j].normalized, es[i].normalized)}

\* C7: the index values of a snapshot are exactly 1..N in segment order, N the number
\* of segments of the PATH string (0 for the empty string), and entry i carries the
\* raw text of the i-th segment
C7_IndexDense ==
  \A sn \in Snapshots :
    /\ Len(sn[2]) = NumSegments(sn[1])
    /\ \A i \in 1..Len(sn[2]) :
         sn[2][i].index = i /\ sn[2][i].raw = SegmentAt(sn[1], i)

\* a snapshot of a PATH with an empty segment between two others has been built
C7_Witness ==
  /\ pc = "done"
  /\ Len(entries) = 3
  /\ entries[2].raw = ""
  /\ entries[3].index = 3

\* C4: duplicate_of = k points to an earlier entry with the same normalized value that
\* is itself no duplicate and is the first entry with that value; a first occurrence
\* never has duplicate_of set
C4_DuplicateOfFirst ==
  \A sn \in Snapshots : \A i \in 1..Len(sn[2]) :
    LET es == sn[2]
        same == {j \in 1..Len(es) : es[j].normalized = es[i].normalized} IN
    /\ es[i].duplicate_of # None =>
         /\ es[i].duplicate_of \in 1..(es[i].index - 1)
         /\ es[es[i].duplicate_of].normalized = es[i].normalized
         /\ es[es[i].duplicate_of].duplicate_of = None
         /\ \A j \in same : es[i].duplicate_of <= j
    /\ (\A j \in same : i <= j) => es[i].duplicate_of = None

\* three entries share a normalized value and the third points to the first
C4_Witness ==
  /\ Len(entries) = 3
  /\ entries[1].normalized = entries[2].normalized
  /\ entries[2].normalized = entries[3].normalized
  /\ entries[2].raw # entries[1].raw
  /\ entries[3].duplicate_of = 1

\* C5: shadowed_by = k points to an earlier entry whose normalized value is a strict
\* ancestor directory on a component boundary, and shadowed_by is none exactly when
\* no earlier entry is such an ancestor
C5_ShadowedByAncestor ==
  \A sn \in Snapshots : \A i \in 1..Len(sn[2]) :
    LET es == sn[2] IN
    /\ es[i].shadowed_by # None =>
         /\ es[i].shadowed_by \in 1..(es[i].index - 1)
         /\ StrictAncestor(es[es[i].shadowed_by].normalized, es[i].normalized)
    /\ es[i].shadowed_by = None <=> AncestorsBefore(es, i) = {}

\* /a is followed by /ab (a string prefix only, not shadowed) and /a/b (shadowed)
C5_Witness ==
  /\ Len(entries) = 3
  /\ entries[1].normalized = "/a"
  /\ entries[2].normalized = "/ab" /\ entries[2].shadowed_by = None
  /\ entries[3].normalized = "/a/b" /\ entries[3].shadowed_by = 1

\* C6 as claimed: with several earlier ancestors, shadowed_by is the nearest preceding one
C6_NearestPrior ==
  \A sn \in Snapshots : \A i \in 1..Len(sn[2]) :
    AncestorsBefore(sn[2], i) # {} =>
      \A j \in AncestorsBefore(sn[2], i) : j <= sn[2][i].shadowed_by

\* C6 amended: with several earlier ancestors, shadowed_by is the first one in list
\* order (the smallest index), where the scan stops
C6_FirstPrior ==
  \A sn \in Snapshots : \A i \in 1..Len(sn[2]) :
    AncestorsBefore(sn[2], i) # {} =>
      /\ sn[2][i].shadowed_by \in AncestorsBefore(sn[2], i)
      /\ \A j \in AncestorsBefore(sn[2], i) : sn[2][i].shadowed_by <= j

\* an entry has two earlier ancestors
C6_Witness ==
  /\ Len(entries) = 3
  /\ AncestorsBefore(entries, 3) = {1, 2}
  /\ entries[3].shadowed_by = 1

-----------------------------------------------------------------------------
(* The fix session with a user who answers every prompt: input() returns, and the
   process runs on to its next input() *)

FairSpec == Spec /\ WF_vars(Next)

-----------------------------------------------------------------------------
(* Properties of the fix session *)

\* the snapshot analyze_path builds of the list parts on the filesystem as it is
SnapshotOf(parts) == analyze_path([set |-> TRUE, val |-> rebuild_path(parts)], fs).entries

\* the raw texts of the broken entries of a snapshot
BrokenRaws(es) == {es[k].raw : k \in {j \in 1..Len(es) : IsBroken(es[j])}}

\* the last step was a call of _apply_fix_for_entry that changed current_parts
JustMutated == hist.last # NoLast

\* the last step was the Remove action, and nothing outside the process has touched
\* the filesystem
JustRemoved == JustMutated /\ log = <<"REMOVE">> /\ ~hist.external

\* C2: the process PATH is never left changed: after every call of reanalyze_with,
\* returning or raising, os.environ["PATH"] is what it was, so in every state of a
\* started session (each prompt, the return to main, an uncaught exception) it is
\* the value the session started with
C2_PathRestored == hist.started => environ = hist.env0

\* the preview's reanalyze_with raised on a list that differs from the PATH the
\* session started with, and the process PATH is the old one
C2_Witness ==
  /\ hist.started
  /\ pc = "raised"
  /\ cmd = "p"
  /\ rebuild_path(current_parts) # hist.env0.val
  /\ environ = hist.env0

\* C3: in every state of the session, joining current_parts with the separator and
\* splitting the result again gives current_parts back
C3_RoundTrip == hist.started => SplitPath(rebuild_path(current_parts)) = current_parts

\* C1: whenever _apply_fix_for_entry changes the list for the entry e, position
\* e.index - 1 of the list held exactly e.raw
C1_IndexAligned ==
  JustMutated => hist.last.before[hist.last.index] = hist.last.raw

\* C8: after a Remove, with the filesystem untouched, the snapshot of the new list has
\* at most the prior broken count minus one broken entries, each of a segment that
\* was broken before
C8_RemovalMonotone ==
  JustRemoved =>
    /\ Len(Broken(SnapshotOf(current_parts))) <= Len(Broken(SnapshotOf(hist.last.before))) - 1
    /\ BrokenRaws(SnapshotOf(current_parts)) \subseteq BrokenRaws(SnapshotOf(hist.last.before))

\* C9: Remove deletes exactly the element of the selected entry and leaves the others
\* in place; a preview then reports a broken count one lower and proposes the join of
\* the remaining segments
C9_RemoveExactlyOne ==
  JustRemoved =>
    /\ hist.last.before[hist.last.index] = hist.last.raw
    /\ current_parts = ListPop(hist.last.before, hist.last.index - 1)
    /\ Len(Broken(SnapshotOf(current_parts))) = Len(Broken(SnapshotOf(hist.last.before))) - 1
    /\ rebuild_path(current_parts) = Join(ListPop(hist.last.before, hist.last.index - 1), pathsep)

\* the last step printed the complaint about an answer that is not one of the choices
InvalidAnswer ==
  \E k \in 1..Len(out) :
    out[k].msg \in {"Invalid action.", "Invalid selection.", "Replacement cannot be empty."}

\* C10: once guided-all is at a per-entry action prompt, the session is eventually back
\* at the top of the command loop, whatever valid answers the user gives. Not held
\* against the claim: an answer outside the choices, an uncaught exception, and a
\* guided loop that has left the prompts through an index mismatch
C10_GuidedTerminates ==
  (caller = "guided" /\ pc = "Action") ~> (pc \in {"loop", "raised", "guided"} \/ InvalidAnswer)

\* C11: Back at the per-entry action prompt abandons the sub-flow, and the process goes
\* to the top of the command loop (the Fix> prompt is the next prompt), whether the
\* sub-flow was entered by a number or by guided-all; an uncaught exception aside
C11_BackToCommand == [][ActBack => pc' \in {"loop", "raised"}]_vars

\* the prompts inside a call of _apply_fix_for_entry
InCall == {"Action", "Replacement", "Create", "Pick"}

\* C12: Keep, Back (at the action prompt, the replacement prompt or the suggestion
\* pick) and an invalid action letter leave current_parts as it was when the per-entry
\* sub-flow started: no step that stays inside the sub-flow changes the list, and
\* neither does the answer itself
C12_NoMutation ==
  [][\/ current_parts' = current_parts
     \/ /\ ~(pc \in InCall /\ pc' \in InCall \ {"Action"})
        /\ ~(ActKeep \/ ActBack \/ ActInvalid \/ TypeBack \/ PickBack)]_vars

\* Keep has been answered in a session whose list an earlier action had changed
C12_Witness ==
  /\ log = <<"KEEP">>
  /\ pc = "loop"
  /\ rebuild_path(current_parts) # hist.env0.val

\* the step is a directory creation that fails: y at the create prompt of
\* Replace-manual, or the Create-directory action
MkdirFails ==
  \/ pc = "Create" /\ ~MkdirP(fs, norm).ok /\ CreateYes
  \/ pc = "Action" /\ ~MkdirP(fs, normalize_dir(fs, e.raw)).ok /\ ActMkdir

\* the step logged a Replace-manual substitution
ManualReplaced ==
  \E k \in 1..Len(log') : log'[k] \in {"REPLACE(manual)", "REPLACE+MKDIR(manual)"}

\* C13: a failed directory creation logs MKDIR FAILED, leaves current_parts unchanged
\* and the session goes on (the process does not end); and Replace-manual substitutes
\* only a path that is a directory once the step is done (it existed or was created)
C13_MkdirFailure ==
  [][/\ MkdirFails =>
          /\ \E k \in 1..Len(log') : log'[k] = "MKDIR FAILED"
          /\ current_parts' = current_parts
          /\ pc' # "raised"
     /\ ((TypePath \/ CreateYes) /\ ManualReplaced) => IsDir(fs', out'[1].text)]_vars

\* the step wrote the record kind to the log
Logged(kind) == \E k \in 1..Len(log') : log'[k] = kind

\* p is no directory on the disk as it is now (it is missing, or a regular file)
NotADir(p) == Stat(fs, p).kind \in {"none", "file"}

\* C14: Replace-from-suggestion substitutes a candidate only if it is an existing
\* directory when looked at again after the pick; a pick among candidates that are no
\* longer directories leaves current_parts unchanged and logs SUGGESTED_INVALID; with
\* no suggestions, current_parts is unchanged and SUGGESTION_NONE is logged
C14_SuggestionRechecked ==
  [][/\ (PickValid /\ Logged("REPLACE(suggested)")) =>
          /\ fs' = fs
          /\ IsDir(fs, out'[1].text)
          /\ \E k \in 1..Len(alts) : alts[k] = out'[1].text
          /\ current_parts' = ListSet(current_parts, e.index - 1, out'[1].text)
     /\ (PickValid /\ \A k \in 1..Len(alts) : NotADir(alts[k])) =>
          current_parts' = current_parts /\ Logged("SUGGESTED_INVALID")
     /\ (ActSuggest /\ alts = <<>>) =>
          current_parts' = current_parts /\ Logged("SUGGESTION_NONE")]_vars

\* a suggestion computed while it was a directory was picked after another process
\* had removed it
C14_Witness ==
  /\ hist.external
  /\ \E k \in 1..Len(log) : log[k] = "SUGGESTED_INVALID"
  /\ "/a/b1" \notin fs.dirs

\* C15: a successful Create-directory makes the normalized form of the entry's raw
\* path a directory and leaves current_parts as it was, at every position
C15_MkdirKeepsParts ==
  [][(ActMkdir /\ Logged("MKDIR")) =>
       /\ IsDir(fs', normalize_dir(fs, e.raw))
       /\ current_parts' = current_parts]_vars

\* the step printed the message m
Printed(m) == \E k \in 1..Len(out') : out'[k].msg = m

\* the step is the answer to an input error: a command that is no number and none of
\* a/p/q, a number that is no index of the snapshot or names an entry that is not
\* broken, an invalid action letter, an invalid suggestion pick
InputError ==
  \/ CmdOther
  \/ CmdNumber /\ (Printed("Entry not found.") \/ Printed("Entry is not broken."))
  \/ ActInvalid
  \/ PickInvalid

\* C16: an input error is never fatal and never mutates: it produces a message, leaves
\* current_parts unchanged and brings the session back to the command prompt
C16_InputErrors ==
  [][InputError =>
       /\ \/ Printed("Enter a number, or a/p/q.") \/ Printed("Entry not found.")
          \/ Printed("Entry is not broken.") \/ Printed("Invalid action.")
          \/ Printed("Invalid selection.")
       /\ current_parts' = current_parts
       /\ pc' = "loop"]_vars

\* C17: the p command is a read-only probe: it leaves current_parts, the session's
\* current snapshot and the process PATH unchanged, and the broken count it reports is
\* the number of broken entries of the snapshot of the join of current_parts
C17_PreviewReadOnly ==
  [][CmdPreview =>
       /\ current_parts' = current_parts
       /\ current_raw' = current_raw /\ current_entries' = current_entries
       /\ environ' = environ
       /\ \A k \in 1..Len(out') :
            out'[k].msg = "Summary: broken now" =>
              out'[k].n = Len(Broken(SnapshotOf(current_parts)))]_vars

\* a preview has reported a broken count that differs from that of the session's
\* current snapshot, which is older than a change another process made on the disk
C17_Witness ==
  /\ log = <<"Preview requested">>
  /\ hist.external
  /\ Len(out) = 2
  /\ out[2].n # Len(Broken(current_entries))
  /\ out[2].n = Len(Broken(SnapshotOf(current_parts)))

\* C18: q at the Fix> prompt ends the session without rollback: the session returns
\* the join of current_parts as it stands and the snapshot built from that string
C18_QuitReturnsParts ==
  [][CmdQuit =>
       /\ current_parts' = current_parts
       /\ raw_path' = rebuild_path(current_parts)
       /\ entries' = SnapshotOf(current_parts)]_vars

\* C19: for every broken path, filesystem and limit >= 0, suggest_alternatives
\* returns a list of at most limit candidates
C19_AtMostLimit ==
  (pc = "returned" /\ ~IsDir(fs, e.raw)) => Len(alts) <= e.limit

\* the filesystem of Scenario C: /opt/toolX exists, /opt/toolX/1.2 does not, and the
\* only tree under /opt/toolX is 1.3/bin
ScenarioC ==
  /\ e.raw = "/opt/toolX/1.2/bin"
  /\ e.limit = DefaultLimit
  /\ Children(fs, "/opt/toolX") = {"/opt/toolX/1.3"}
  /\ Children(fs, "/opt/toolX/1.3") = {"/opt/toolX/1.3/bin"}
  /\ IsDir(fs, "/opt/toolX/1.3/bin")

\* C20: in Scenario C suggest_alternatives returns /opt/toolX/1.3/bin as a candidate
C20_ScenarioC ==
  (pc = "returned" /\ ScenarioC) => \E k \in 1..Len(alts) : alts[k] = "/opt/toolX/1.3/bin"

\* the rules of classify in the order of the contract; rule k of 4..14 is the k-3rd
\* keyword bucket
RuleCategory ==
  <<"System", "Apple / Xcode / Developer", "Homebrew", "Python", "Node.js", "Java", "Go",
    "Rust", "Ruby", "Android", "Dotfiles / User Local", "Cloud / DevOps", "Databricks",
    "Databases", "Node.js", "Python">>

\* the numbers of the rules the path text p matches
RuleHits(p) ==
  {k \in 1..Len(RuleCategory) :
     \/ k = 1 /\ \E j \in 1..Len(SYSTEM_PREFIXES) : StartsWith(p, SYSTEM_PREFIXES[j])
     \/ k = 2 /\ \E j \in 1..Len(DEV_PREFIXES) : StartsWith(p, DEV_PREFIXES[j])
     \/ k = 3 /\ \E j \in 1..Len(BREW_PREFIXES) : StartsWith(p, BREW_PREFIXES[j])
     \/ /\ k \in 4..14
        /\ KEYWORD_BUCKETS[k - 3].cat = RuleCategory[k]
        /\ \E j \in 1..Len(KEYWORD_BUCKETS[k - 3].needles) :
             Contains(Lower(p), Lower(KEYWORD_BUCKETS[k - 3].needles[j]))
     \/ k = 15 /\ MatchesNodeVersion(Lower(p))
     \/ k = 16 /\ MatchesPythonVersion(Lower(p))}

\* C21: classify is first-match-wins in the fixed rule order: the category is that of
\* the first rule the path matches, whatever later rules it matches too; a path that
\* matches no rule is Other / Unknown with reason no match; /opt/homebrew/bin and
\* /opt/homebrew/Cellar/foo/1.0/bin are Homebrew, the latter with reason brew cellar
C21_FirstMatchWins ==
  pc = "returned" /\ "category" \in DOMAIN e =>
    /\ \A k \in RuleHits(e.raw) :
         (\A j \in RuleHits(e.raw) : k <= j) => e.category = RuleCategory[k]
    /\ RuleHits(e.raw) = {} => e.category = "Other / Unknown" /\ e.reason = "no match"
    /\ e.raw = "/opt/homebrew/bin" => e.category = "Homebrew"
    /\ e.raw = "/opt/homebrew/Cellar/foo/1.0/bin" =>
         e.category = "Homebrew" /\ e.reason = "brew cellar"

\* a path under a package-manager prefix that also holds a keyword has been classified
C21_Witness ==
  /\ pc = "returned"
  /\ e.raw = "/usr/local/pyenv/bin"
  /\ {3, 4} \subseteq RuleHits(e.raw)
  /\ e.category = "Homebrew"

\* C22: an error of a filesystem query is never propagated: no call of analyze_path or
\* suggest_alternatives ends with an exception (pc = "raised"), and a snapshot built
\* while a directory is unsearchable reports the segments under it as not existing
C22_ErrorsNotPropagated ==
  /\ pc # "raised"
  /\ \A k \in 1..Len(current_entries) :
       Stat(fs, current_entries[k].expanded).kind = "denied" => ~current_entries[k].exists

\* the snapshot rebuilt from the parts and the filesystem as a step leaves them
SnapNext == analyze_path([set |-> TRUE, val |-> rebuild_path(current_parts')], fs').entries

\* a step taken inside the guided loop of lines 549-572
InGuided == pc = "guided" \/ (pc \in InCall /\ caller = "guided") \/ CmdGuided

C24_GroupingPartition ==
  pc \in {"offer_fix", "done"} =>
    /\ \A i \in 1..Len(entries) :
         /\ entries[i].category \in DOMAIN grouped
         /\ \A c \in DOMAIN grouped :
              Cardinality({k \in 1..Len(grouped[c]) : grouped[c][k] = entries[i].index})
                = IF c = entries[i].category THEN 1 ELSE 0
    /\ \A c \in DOMAIN grouped :
         /\ grouped[c] # <<>>
         /\ \A k \in 1..Len(grouped[c]) : grouped[c][k] \in 1..Len(entries)
         /\ \A k \in 1..(Len(grouped[c]) - 1) : grouped[c][k] < grouped[c][k + 1]

\* a snapshot of three entries in two groups, one of them holding entries 1 and 3
C24_Witness ==
  /\ pc \in {"offer_fix", "done"}
  /\ Len(entries) = 3
  /\ Cardinality(DOMAIN grouped) = 2
  /\ grouped[entries[1].category] = <<1, 3>>
  /\ grouped[entries[2].category] = <<2>>

\* C25: the regex fallbacks of classify are effective: some path is classified with
\* the reason node versioned path, and some path with the reason python versioned path
C25_FallbacksEffective ==
  pc = "returned" =>
    /\ \E p \in ClassifyInputs :
         MatchesNodeVersion(Lower(p)) /\ classify(p)[2] = "node versioned path"
    /\ \E p \in ClassifyInputs :
         MatchesPythonVersion(Lower(p)) /\ classify(p)[2] = "python versioned path"

RECURSIVE Derivable(_, _)
\* parts is the entry list init with some broken positions deleted or substituted in
\* place, and every other position left as it was
Derivable(init, parts) ==
  IF init = <<>> THEN parts = <<>>
  ELSE IF IsBroken(Head(init))
    THEN \/ Derivable(Tail(init), parts)
         \/ parts # <<>> /\ Derivable(Tail(init), Tail(parts))
  ELSE parts # <<>> /\ Head(parts) = Head(init).raw /\ Derivable(Tail(init), Tail(parts))

\* the session is running and only the session has changed the filesystem
SessionAlone == hist.started /\ ~hist.external /\ pc \in InCall \cup {"loop", "Fix", "guided"}

\* C26: with the filesystem changed only by the session, current_parts is always the
\* initial list of non-empty segments with some initially broken positions deleted or
\* substituted in place: it never grows, and the initially non-broken segments keep
\* their text and their order
C26_OnlyBrokenTouched ==
  SessionAlone =>
    /\ Len(current_parts) <= Len(entries)
    /\ Derivable(SelectSeq(entries, LAMBDA en : en.raw # ""), current_parts)

\* C27: in every snapshot the entry a shadowed_by value refers to is itself neither
\* shadowed nor a duplicate
C27_ShadowerIsPlain ==
  \A sn \in Snapshots : \A i \in 1..Len(sn[2]) :
    sn[2][i].shadowed_by # None =>
      /\ sn[2][sn[2][i].shadowed_by].shadowed_by = None
      /\ sn[2][sn[2][i].shadowed_by].duplicate_of = None

\* the third entry lies under the second, which is itself shadowed by the first, and
\* is attributed to the first
C27_Witness ==
  /\ Len(entries) = 3
  /\ entries[2].shadowed_by = 1
  /\ StrictAncestor(entries[2].normalized, entries[3].normalized)
  /\ entries[3].shadowed_by = 1

\* C28: the guided loop never spins without user interaction: no iteration takes the
\* early return 'Internal index mismatch; skipping.' of _apply_fix_for_entry, after
\* which the loop goes round again with the same target (pc = "guided")
C28_GuidedNeverSpins == pc # "guided"

\* the lines the last step printed
Shown(m) == \E k \in 1..Len(out) : out[k].msg = m

\* C29: when guided-all finishes, control falls through to the numeric handler with the
\* last targeted index; with the filesystem changed only by the session the fall-through
\* starts no per-entry sub-flow and does not change parts: it ends at the command loop
\* with a complaint about the index, and the list is the one the guided loop left
C29_FallThroughHarmless ==
  [][\/ ~Printed("No broken entries remain.")
     \/ hist.external \/ ~InGuided
     \/ /\ pc' = "loop" /\ e' = NoEntry /\ caller' = ""
        /\ \/ Printed("Entry is not broken.") \/ Printed("Entry not found.")
           \/ Printed("Enter a number, or a/p/q.")
        /\ Broken(SnapNext) = <<>>
        /\ current_entries' = SnapNext
        /\ current_raw' = rebuild_path(current_parts')]_vars

\* guided-all has finished by removing the last entry of the list, and the fall-through
\* looked its index up in vain
C29_Witness ==
  /\ pc = "loop"
  /\ ~hist.external
  /\ JustMutated
  /\ Shown("No broken entries remain.") /\ Shown("Entry not found.")
  /\ hist.last.index = Len(current_parts) + 1

\* a step in which Replace-manual, Replace-from-suggestion or Create-directory succeeds
SuccessfulFix ==
  \/ (TypePath \/ CreateYes) /\ ManualReplaced
  \/ PickValid /\ Logged("REPLACE(suggested)")
  \/ ActMkdir /\ Logged("MKDIR")

Aligned ==
  /\ SplitPath(rebuild_path(current_parts)) = current_parts
  /\ SplitPath(rebuild_path(current_parts')) = current_parts'
  /\ e.index \in 1..Len(current_parts)
  /\ current_parts[e.index] = e.raw

====
